---- MODULE Spec2Model ----
(***************************************************************************)
(* FairnessOptimizer: the fairness evaluator with its per-instance cache,  *)
(* the constraint model, the exact solver with its heuristic fallback, the *)
(* data adjuster and the optimize_fairness pipeline.                       *)
(*                                                                         *)
(* Datasets are sequences of rows over the two columns "sensitive_a" and   *)
(* "g".  Row i of the code (0-based) is data[i + 1] here.  Scores are      *)
(* exact fractions num/den; the float NaN and a raised exception are       *)
(* separate kinds of result.                                               *)
(***************************************************************************)
EXTENDS Integers, Sequences, FiniteSets, TLC

VARIABLES
    cache,        \* FairnessEvaluator.combinations_cache
    evalData,     \* dataset of the latest direct evaluate() call
    evalAttrs,    \* attribute list of the latest direct evaluate() call
    evalResult,   \* what that call returned (score, NaN) or that it raised
    evalCalls     \* number of direct evaluate() calls made so far (capped)

VARIABLES
    data,             \* FairnessOptimizer.data, the original dataset
    attrs,            \* config['sensitive_attributes']
    coef,             \* config['coefficient'], a fraction num/den
    pc,               \* position inside optimize_fairness
    initialFairness,  \* initial_fairness of optimize_fairness
    cdata,            \* constraints_data built by generate_constraints
    status,           \* status returned by solver.Solve
    solution,         \* the solution returned by ConstraintSolver.solve
    heur,             \* locals of _generate_improved_solution
    calib,            \* locals of binary_search and its two results
    adjCall,          \* the latest adjust_data call and what it returned
    adjusted,         \* adjusted_data
    round,            \* rounds of the oversampling loop already run
    finalFairness     \* final_fairness of optimize_fairness

VARIABLES
    request,      \* the POST /optimize request: its config and its data file
    rpc,          \* position inside the request handler of app.py
    steps,        \* the processing steps the handler has run so far
    response      \* what the handler answered

VARIABLES
    rng,          \* the global generators of random and of numpy.random
    seeded        \* one optimize call followed draw by draw: what it returned

evars == <<cache, evalData, evalAttrs, evalResult, evalCalls>>

pvars == <<data, attrs, coef, pc, initialFairness, cdata, status, solution,
           heur, calib, adjCall, adjusted, round, finalFairness>>

xvars == <<request, rpc, steps, response, rng, seeded>>

vars == <<cache, evalData, evalAttrs, evalResult, evalCalls,
          data, attrs, coef, pc, initialFairness, cdata, status, solution,
          heur, calib, adjCall, adjusted, round, finalFairness,
          request, rpc, steps, response, rng, seeded>>

----------------------------------------------------------------------------
(* Bounds of the model *)

MaxRows == 2

MaxEvalCalls == 2

MaxTrials == 3

----------------------------------------------------------------------------
(* Schema and inputs *)

Columns == <<"sensitive_a", "g">>

ColumnValues(col) == IF col = "sensitive_a" THEN {1, 2} ELSE {1, 2}

Rows == [sensitive_a : ColumnValues("sensitive_a"), g : ColumnValues("g")]

Datasets == UNION {[1..m -> Rows] : m \in 0..MaxRows}

AttrLists == {<<>>, <<"sensitive_a">>, <<"g">>, <<"sensitive_a", "g">>}

Frac(n, d) == [num |-> n, den |-> d]

Coefficients == {Frac(1, 4), Frac(1, 2), Frac(1, 1), Frac(2, 1)}

\* a generator: the seed it was started from, the draws made and its state
Generator(s) == [seed |-> s, draws |-> 0, x |-> s % 16]

NoRng == [py |-> Generator(0), np |-> Generator(0)]

NoSeeded == [phase |-> "none", sel |-> <<>>, fairness |-> [kind |-> "none", num |-> 0, den |-> 0],
             trials |-> 0, rows |-> <<>>]

\* no request is being handled
NoRequest == [json |-> FALSE, keys |-> {}, attrs |-> <<>>, upload |-> "absent",
              file |-> <<>>]

----------------------------------------------------------------------------
(* Results of a float computation *)

Score(n, d) == [kind |-> "score", num |-> n, den |-> d]

NaN == [kind |-> "nan", num |-> 0, den |-> 0]

Raised == [kind |-> "error", num |-> 0, den |-> 0]

NoResult == [kind |-> "none", num |-> 0, den |-> 0]

IsScore(r) == r.kind = "score"

\* a < b on floats: FALSE as soon as one side is NaN
Less(a, b) == IsScore(a) /\ IsScore(b) /\ a.num * b.den < b.num * a.den

LessEq(a, b) == IsScore(a) /\ IsScore(b) /\ a.num * b.den <= b.num * a.den

SameValue(a, b) ==
    \/ a.kind = b.kind /\ a.kind # "score"
    \/ IsScore(a) /\ IsScore(b) /\ a.num * b.den = b.num * a.den

InUnitInterval(r) == IsScore(r) /\ 0 <= r.num /\ r.num <= r.den /\ r.den > 0

SetMax(S) == CHOOSE x \in S : \A y \in S : y <= x

SetMin(S) == CHOOSE x \in S : \A y \in S : x <= y

----------------------------------------------------------------------------
(* Subgroup enumeration: _get_combinations *)

RECURSIVE UniqueAcc(_, _)
UniqueAcc(s, acc) ==
    IF s = <<>> THEN acc
    ELSE UniqueAcc(Tail(s),
                   IF \E i \in 1..Len(acc) : acc[i] = Head(s)
                   THEN acc ELSE Append(acc, Head(s)))

\* data[attr].unique(): the distinct values in order of first occurrence
Unique(d, attr) == UniqueAcc([i \in 1..Len(d) |-> d[i][attr]], <<>>)

RECURSIVE SingleCombinations(_, _)
SingleCombinations(d, as) ==
    IF as = <<>> THEN <<>>
    ELSE LET u == Unique(d, Head(as))
         IN  [j \in 1..Len(u) |-> {<<Head(as), u[j]>>}]
             \o SingleCombinations(d, Tail(as))

RECURSIVE IterCombinations(_, _)
IterCombinations(s, k) ==
    IF k = 0 THEN << <<>> >>
    ELSE IF Len(s) < k THEN <<>>
    ELSE LET with == IterCombinations(Tail(s), k - 1)
         IN  [j \in 1..Len(with) |-> <<Head(s)>> \o with[j]]
             \o IterCombinations(Tail(s), k)

RECURSIVE Product(_)
Product(ls) ==
    IF ls = <<>> THEN << <<>> >>
    ELSE LET rest == Product(Tail(ls))
             h == Head(ls)
         IN  [j \in 1..(Len(h) * Len(rest)) |->
                 <<h[((j - 1) \div Len(rest)) + 1]>>
                 \o rest[((j - 1) % Len(rest)) + 1]]

\* frozenset(zip(attrs, values)) for every values of the product
ZipCombinations(d, sub) ==
    LET prod == Product([i \in 1..Len(sub) |-> Unique(d, sub[i])])
    IN  [j \in 1..Len(prod) |-> {<<sub[i], prod[j][i]>> : i \in 1..Len(sub)}]

RECURSIVE ZipAll(_, _)
ZipAll(d, subs) ==
    IF subs = <<>> THEN <<>>
    ELSE ZipCombinations(d, Head(subs)) \o ZipAll(d, Tail(subs))

RECURSIVE MultiCombinations(_, _, _)
MultiCombinations(d, as, k) ==
    IF k > Len(as) THEN <<>>
    ELSE ZipAll(d, IterCombinations(as, k)) \o MultiCombinations(d, as, k + 1)

BuildCombinations(d, as) == SingleCombinations(d, as) \o MultiCombinations(d, as, 2)

----------------------------------------------------------------------------
(* FairnessEvaluator *)

NotCached == [present |-> FALSE, combos |-> <<>>]

EmptyCache == [as \in AttrLists |-> NotCached]

\* _get_combinations: the cached list when the key is present, else a new one
GetCombinations(c, d, as) ==
    IF c[as].present THEN c[as].combos ELSE BuildCombinations(d, as)

CacheAfter(c, d, as) ==
    IF c[as].present THEN c
    ELSE [c EXCEPT ![as] = [present |-> TRUE, combos |-> BuildCombinations(d, as)]]

\* the count with the first row left out of the loop
MatchCountFromSecondRow(d, combo) ==
    Cardinality({i \in 2..Len(d) : \A p \in combo : d[i][p[1]] = p[2]})

\* mask.sum(): the rows that carry every (attribute, value) pair of the combination
MatchCount(d, combo) ==
    Cardinality({i \in 1..Len(d) : \A p \in combo : d[i][p[1]] = p[2]})

\* _calculate_supports: the counts behind supports.values()
SupportCounts(d, combos) == {MatchCount(d, combos[j]) : j \in 1..Len(combos)}

\* 1 - (max support - min support), supports being counts over len(data)
FairnessScore(counts, total) == Score(total - (SetMax(counts) - SetMin(counts)), total)

EvaluateResult(c, d, as) ==
    LET combos == GetCombinations(c, d, as)
    IN  IF combos = <<>> THEN Raised
        ELSE IF Len(d) = 0 THEN NaN
        ELSE FairnessScore(SupportCounts(d, combos), Len(d))

----------------------------------------------------------------------------
(* ConstraintGenerator.generate_constraints *)

Scale == 1000000

\* int(n * coefficient)
FloorMul(n, c) == (n * c.num) \div c.den

\* _has_combination(row, combination)
HasCombination(row, combo) == \A p \in combo : row[p[1]] = p[2]

\* the model: n boolean x[i], sum(x) == k, one count per combination being the
\* sum of the x[i] of the rows that have it
GenerateConstraints(d, as, c) ==
    LET combos == BuildCombinations(d, as)
    IN  [n |-> Len(d),
         k |-> FloorMul(Len(d), c),
         count |-> combos,
         rowsOf |-> [j \in 1..Len(combos) |->
                        {i \in 0..(Len(d) - 1) : HasCombination(d[i + 1], combos[j])}]]

NoModel == [n |-> 0, k |-> 0, count |-> <<>>, rowsOf |-> <<>>]

\* the assignments of x that satisfy sum(x) == k
Selections(m) == {S \in SUBSET (0..(m.n - 1)) : Cardinality(S) = m.k}

\* max_count - min_count of an assignment
Spread(m, S) ==
    LET cs == {Cardinality(S \cap m.rowsOf[j]) : j \in 1..Len(m.count)}
    IN  SetMax(cs) - SetMin(cs)

\* the values of fairness_score in 0..Scale with
\*   fairness_score * k == Scale * k - (max_count - min_count) * Scale.
\* With k = 0 every value of 0..Scale satisfies it: the two ends stand for them.
FeasibleObjectives(m, S) ==
    IF m.k = 0 THEN {0, Scale}
    ELSE IF (Spread(m, S) * Scale) % m.k = 0
         THEN {Scale - (Spread(m, S) * Scale) \div m.k}
         ELSE {}

FeasiblePairs(m) ==
    IF m.count = <<>> THEN {}
    ELSE UNION {{<<S, fs>> : fs \in FeasibleObjectives(m, S)} : S \in Selections(m)}

OptimalPairs(m) ==
    {p \in FeasiblePairs(m) : \A q \in FeasiblePairs(m) : q[2] <= p[2]}

----------------------------------------------------------------------------
(* ConstraintSolver *)

\* what solver.Solve may end with under its 300 s limit: the optimum, an
\* incumbent, nothing yet, or a proof that no assignment exists
SolverOutcomes(m) ==
    {[status |-> "OPTIMAL", sel |-> p[1], fs |-> p[2]] : p \in OptimalPairs(m)}
    \cup {[status |-> "FEASIBLE", sel |-> p[1], fs |-> p[2]] : p \in FeasiblePairs(m)}
    \cup {[status |-> "UNKNOWN", sel |-> {}, fs |-> 0]}
    \cup (IF FeasiblePairs(m) = {}
          THEN {[status |-> "INFEASIBLE", sel |-> {}, fs |-> 0]} ELSE {})

RECURSIVE Ascending(_)
Ascending(S) ==
    IF S = {} THEN <<>>
    ELSE <<SetMin(S)>> \o Ascending(S \ {SetMin(S)})

\* status == cp_model.OPTIMAL alone
SolvedOptimalOnly(o) == o.status = "OPTIMAL"

\* status == cp_model.OPTIMAL or status == cp_model.FEASIBLE
Solved(o) == o.status \in {"OPTIMAL", "FEASIBLE"}

RECURSIVE GCD(_, _)
GCD(a, b) == IF b = 0 THEN a ELSE GCD(b, a % b)

\* solver.Value(fairness_score) / 1000000, as a fraction in lowest terms
Decoded(o) == Score(o.fs \div GCD(o.fs, Scale), Scale \div GCD(o.fs, Scale))

NoSolution == [selected_indices |-> <<>>, fairness_score |-> NoResult]

\* solve() returns the exact result: the status test holds and
\* optimized_fairness <= initial_fairness does not
ReturnsExact(o, initial) == Solved(o) /\ ~LessEq(Decoded(o), initial)

\* random.choices(range(n), k=m): a draw with replacement
SamplesWithReplacement(n, m) == [1..m -> 0..(n - 1)]

\* random.sample(range(n), m)
Samples(n, m) ==
    {s \in [1..m -> 0..(n - 1)] : \A a, b \in 1..m : a # b => s[a] # s[b]}

\* min(int(data_size * coefficient), data_size)
SelectedSize(n, c) == IF FloorMul(n, c) < n THEN FloorMul(n, c) ELSE n

\* i in c, for an int i and a frozenset c of (attribute, value) tuples: an int
\* never equals a tuple
IntEqualsTuple(i, p) == FALSE

IndexInCombination(i, combo) == \E p \in combo : IntEqualsTuple(i, p)

\* _calculate_fairness(selected_indices, count)
CalculateFairness(sel, count) ==
    LET cs == {Cardinality({a \in 1..Len(sel) : IndexInCombination(sel[a], count[j])})
                  : j \in 1..Len(count)}
    IN  IF Len(sel) = 0 THEN Raised
        ELSE Score(Len(sel) - (SetMax(cs) - SetMin(cs)), Len(sel))

Placeholder == Score(6, 10)

TrialBudget == 1000

TrialLimit == IF TrialBudget < MaxTrials THEN TrialBudget ELSE MaxTrials

NoHeur == [sel |-> <<>>, fairness |-> NoResult, trial |-> 0]

\* new_fairness >= fairness
ImprovesOrEqual(new, old) == LessEq(old, new)

\* new_fairness > fairness
Improves(new, old) == Less(old, new)

----------------------------------------------------------------------------
(* DataAdjuster *)

MaxIterations == 10

\* data.iloc[selected_indices]
Take(d, sel) == [j \in 1..Len(sel) |-> d[sel[j] + 1]]

\* range(len(self.data))
AllIndices(d) == [j \in 1..Len(d) |-> j - 1]

\* col.startswith('sensitive_')
StartsWithSensitive(col) == col \in {"sensitive_a"}

\* data[column].dtype of the model's schema
ColumnType(col) == IF col = "g" THEN "int" ELSE "object"

ColumnSet(d, col) == {d[i][col] : i \in 1..Len(d)}

\* the rows matching the drawn combination of the 'sensitive_' columns, or,
\* when there is none, every row
Templates(d, combo) ==
    LET matching == {i \in 1..Len(d) :
                        \A col \in DOMAIN combo : d[i][col] = combo[col]}
    IN  IF matching # {} THEN {d[i] : i \in matching} ELSE {d[i] : i \in 1..Len(d)}

\* what a column that is not a 'sensitive_' column may get in a synthetic row
PerturbedValues(d, col, t) ==
    IF ColumnType(col) = "int"
    THEN SetMin(ColumnSet(d, col))..SetMax(ColumnSet(d, col))
    ELSE IF ColumnType(col) = "object" THEN ColumnSet(d, col)
    ELSE {t[col]}

\* the rows one pass of the loop of _generate_synthetic_samples may append
SyntheticRows(d) ==
    LET prefixed == {Columns[i] : i \in {j \in 1..Len(Columns) : StartsWithSensitive(Columns[j])}}
        universe == [sensitive_a : ColumnSet(d, "sensitive_a"),
                     g : SetMin(ColumnSet(d, "g"))..SetMax(ColumnSet(d, "g"))]
        combos == {c \in [prefixed -> UNION {ColumnSet(d, col) : col \in prefixed}] :
                      \A col \in prefixed : c[col] \in ColumnSet(d, col)}
    IN  {r \in universe :
            \E c \in combos : \E t \in Templates(d, c) :
                \A i \in 1..Len(Columns) :
                    IF StartsWithSensitive(Columns[i])
                    THEN r[Columns[i]] = t[Columns[i]]
                    ELSE r[Columns[i]] \in PerturbedValues(d, Columns[i], t)}

\* one synthetic row per call, whatever n_samples is
BatchesRowByRow(d, m) == IF m <= 0 THEN {<<>>} ELSE [1..1 -> SyntheticRows(d)]

\* _generate_synthetic_samples(data, n_samples)
Batches(d, m) == IF m <= 0 THEN {<<>>} ELSE [1..m -> SyntheticRows(d)]

\* the batches that make current_fairness >= initial_fairness
KeptBatchesOrEqual(c, d, as, bs) ==
    LET baseline == EvaluateResult(c, d, as)
    IN  {b \in bs : LessEq(baseline, EvaluateResult(c, d \o b, as))}

\* the batches that make current_fairness > initial_fairness
KeptBatches(c, d, as, bs) ==
    LET baseline == EvaluateResult(c, d, as)
    IN  {b \in bs : Less(baseline, EvaluateResult(c, d \o b, as))}

\* adjust_data with coefficient > 1: what the whole loop may return
OversampleResults(c, d, co, as) ==
    LET bs == Batches(d, FloorMul(Len(d), co) - Len(d))
        kept == KeptBatches(c, d, as, bs)
    IN  {d \o b : b \in kept} \cup (IF kept # bs THEN {d} ELSE {})

\* adjust_data: the datasets it may return
AdjustResults(c, d, sel, co, as) ==
    IF co.num <= co.den THEN {Take(d, sel)} ELSE OversampleResults(c, d, co, as)

AdjustRecord(d, co, result, who) ==
    [n |-> Len(d), coef |-> co, rows |-> Len(result),
     delta |-> IF co.num <= co.den THEN Len(d) - Len(result) ELSE Len(result) - Len(d),
     by |-> who]

NoAdjust == [n |-> 0, coef |-> Frac(0, 1), rows |-> 0, delta |-> 0, by |-> "none"]

----------------------------------------------------------------------------
(* PatternMiner.fp_growth and PatternEvaluator.evaluate_pattern, as the      *)
(* constructor of FairnessOptimizer and Step 6 of optimize_fairness run them *)

\* 1 / min_support, min_support being the default 0.1 of PatternMiner
MinSupportInverse == 10

\* an empty cell of the CSV file: NaN after read_csv, dropped by dropna()
NullRow == [sensitive_a |-> 0, g |-> 0]

ColumnNames == {Columns[c] : c \in 1..Len(Columns)}

\* the number of cells of the dataset that hold the item
ItemCount(d, v) ==
    Cardinality({p \in (1..Len(d)) \X ColumnNames : d[p[1]][p[2]] = v})

\* header_table: the items with count >= min_support * len(data)
HeaderItems(d) ==
    {v \in {d[i][c] : i \in 1..Len(d), c \in ColumnNames} \ {0} :
        MinSupportInverse * ItemCount(d, v) >= Len(d)}

\* create_tree inserts the last transaction only: the length of its path
PathLength(d) ==
    Cardinality({c \in ColumnNames : d[Len(d)][c] \in HeaderItems(d)})

\* fp_growth raises on no transaction (sorted_items is unbound) and when a
\* conditional tree is built: a node below the first of the path has support
\* 1, kept in subtree_header when 1 >= min_support * len(data), and
\* create_tree then tests a list for membership in a dict
MiningRaises(d) ==
    \/ Len(d) = 0
    \/ PathLength(d) >= 2 /\ MinSupportInverse >= Len(d)

\* the frequent itemsets returned: one singleton per item of header_table
FpGrowth(d) == {{v} : v \in HeaderItems(d)}

\* intersection_fairness of one pair of attributes: groupby raises KeyError on
\* a missing column, max() raises ValueError when there is no group
PairOutcome(d, pair) ==
    IF \E a \in 1..Len(pair) : pair[a] \notin ColumnNames THEN "KeyError"
    ELSE IF \A i \in 1..Len(d) : \E a \in 1..Len(pair) : d[i][pair[a]] = 0
    THEN "ValueError"
    ELSE "ok"

RECURSIVE FirstFailure(_, _)
FirstFailure(d, pairs) ==
    IF pairs = <<>> THEN "ok"
    ELSE IF PairOutcome(d, Head(pairs)) # "ok" THEN PairOutcome(d, Head(pairs))
    ELSE FirstFailure(d, Tail(pairs))

\* evaluate_pattern over the mined patterns: intersection_fairness of each
\* pattern goes through combinations(sensitive_attributes, 2)
EvaluatePattern(d, as, patterns) ==
    IF patterns = {} THEN "ok" ELSE FirstFailure(d, IterCombinations(as, 2))

----------------------------------------------------------------------------
(* FairnessOptimizer.calculate_optimal_coefficients *)

NoCalib == [search |-> "none", lo |-> 0, hi |-> 0, den |-> 1,
            less |-> Frac(0, 1), greater |-> Frac(0, 1)]

\* binary_search(0, 1) is entered first
CalibStart == [search |-> "low", lo |-> 0, hi |-> 1, den |-> 1,
               less |-> Frac(0, 1), greater |-> Frac(0, 1)]

\* high - low > 0.0001
StillWideTenth(cb) == (cb.hi - cb.lo) * 10000 > cb.den

\* high - low > 0.001, low and high being lo/den and hi/den
StillWide(cb) == (cb.hi - cb.lo) * 1000 > cb.den

Abs(x) == IF x < 0 THEN -x ELSE x

\* abs(fairness - optimized_fairness_score) < 0.001
Within(a, b) ==
    IsScore(a) /\ IsScore(b)
    /\ 1000 * Abs(a.num * b.den - b.num * a.den) < a.den * b.den

\* binary_search returning r: the second search starts, or both are done
CalibReturn(cb, r) ==
    IF cb.search = "low"
    THEN [search |-> "high", lo |-> 1, hi |-> 2, den |-> 1,
          less |-> r, greater |-> cb.greater]
    ELSE [search |-> "done", lo |-> 0, hi |-> 0, den |-> 1,
          less |-> cb.less, greater |-> r]

----------------------------------------------------------------------------
(* The evaluator used on its own: any sequence of evaluate() calls *)

EvalInit ==
    /\ cache = EmptyCache
    /\ evalData = <<>>
    /\ evalAttrs = <<>>
    /\ evalResult = NoResult
    /\ evalCalls = 0
    /\ data = <<>>
    /\ attrs = <<>>
    /\ coef = Frac(1, 1)
    /\ pc = "idle"
    /\ initialFairness = NoResult
    /\ cdata = NoModel
    /\ status = "NONE"
    /\ solution = NoSolution
    /\ heur = NoHeur
    /\ calib = NoCalib
    /\ adjCall = NoAdjust
    /\ adjusted = <<>>
    /\ round = 0
    /\ finalFairness = NoResult
    /\ request = NoRequest
    /\ rpc = "idle"
    /\ steps = {}
    /\ response = "none"
    /\ rng = NoRng
    /\ seeded = NoSeeded

Evaluate(d, as) ==
    /\ evalCalls < MaxEvalCalls
    /\ evalCalls' = evalCalls + 1
    /\ evalData' = d
    /\ evalAttrs' = as
    /\ evalResult' = EvaluateResult(cache, d, as)
    /\ cache' = CacheAfter(cache, d, as)
    /\ UNCHANGED pvars
    /\ UNCHANGED xvars

EvalNext == \E d \in Datasets, as \in AttrLists : Evaluate(d, as)

EvalSpec == EvalInit /\ [][EvalNext]_vars

----------------------------------------------------------------------------
(* FairnessOptimizer.optimize_fairness *)

Init ==
    /\ cache = EmptyCache
    /\ evalData = <<>>
    /\ evalAttrs = <<>>
    /\ evalResult = NoResult
    /\ evalCalls = 0
    /\ data \in Datasets
    /\ attrs \in AttrLists
    /\ coef \in Coefficients
    /\ pc = "start"
    /\ initialFairness = NoResult
    /\ cdata = NoModel
    /\ status = "NONE"
    /\ solution = NoSolution
    /\ heur = NoHeur
    /\ calib = NoCalib
    /\ adjCall = NoAdjust
    /\ adjusted = <<>>
    /\ round = 0
    /\ finalFairness = NoResult
    /\ request = NoRequest
    /\ rpc = "idle"
    /\ steps = {}
    /\ response = "none"
    /\ rng = NoRng
    /\ seeded = NoSeeded

\* Step 1: initial_fairness = evaluate(self.data, sensitive_attributes)
EvaluateInitial ==
    /\ pc = "start"
    /\ initialFairness' = EvaluateResult(cache, data, attrs)
    /\ cache' = CacheAfter(cache, data, attrs)
    /\ pc' = IF EvaluateResult(cache, data, attrs) = Raised
             THEN "raised_in_evaluate" ELSE "model"
    /\ UNCHANGED <<evalData, evalAttrs, evalResult, evalCalls, data, attrs, coef,
                   cdata, status, solution, heur, calib, adjCall, adjusted, round,
                   finalFairness>>
    /\ UNCHANGED xvars

\* Step 2: constraints_data = generate_constraints(self.data, self.config)
BuildModel ==
    /\ pc = "model"
    /\ cdata' = GenerateConstraints(data, attrs, coef)
    /\ pc' = "solve"
    /\ UNCHANGED <<evars, data, attrs, coef, initialFairness, status, solution, heur,
                   calib, adjCall, adjusted, round, finalFairness>>
    /\ UNCHANGED xvars

\* Step 3, solve(): the exact result is returned and Step 4 follows at once
SolveExactSkippingCalibration ==
    /\ pc = "solve"
    /\ \E o \in SolverOutcomes(cdata) :
        /\ ReturnsExact(o, initialFairness)
        /\ status' = o.status
        /\ solution' = [selected_indices |-> Ascending(o.sel),
                        fairness_score |-> Decoded(o)]
    /\ pc' = "adjust"
    /\ UNCHANGED <<evars, data, attrs, coef, initialFairness, cdata, heur, calib,
                   adjCall, adjusted, round, finalFairness>>
    /\ UNCHANGED xvars

\* Step 3, solve(): the exact result is returned
SolveExact ==
    /\ pc = "solve"
    /\ \E o \in SolverOutcomes(cdata) :
        /\ ReturnsExact(o, initialFairness)
        /\ status' = o.status
        /\ solution' = [selected_indices |-> Ascending(o.sel),
                        fairness_score |-> Decoded(o)]
    /\ calib' = CalibStart
    /\ pc' = "calibrate"
    /\ UNCHANGED <<evars, data, attrs, coef, initialFairness, cdata, heur, adjCall,
                   adjusted, round, finalFairness>>
    /\ UNCHANGED xvars

\* Step 3, solve(): no assignment, or one that is not better than the baseline
SolveFallback ==
    /\ pc = "solve"
    /\ \E o \in SolverOutcomes(cdata) :
        /\ ~ReturnsExact(o, initialFairness)
        /\ status' = o.status
    /\ pc' = "heuristic"
    /\ UNCHANGED <<evars, data, attrs, coef, initialFairness, cdata, solution, heur,
                   calib, adjCall, adjusted, round, finalFairness>>
    /\ UNCHANGED xvars

\* _generate_improved_solution up to the loop
HeuristicDraw ==
    /\ pc = "heuristic"
    /\ \E s \in Samples(cdata.n, SelectedSize(cdata.n, coef)) :
        IF cdata.count = <<>>
        THEN /\ solution' = [selected_indices |-> s, fairness_score |-> Placeholder]
             /\ calib' = CalibStart
             /\ pc' = "calibrate"
             /\ heur' = heur
        ELSE IF CalculateFairness(s, cdata.count) = Raised
        THEN /\ pc' = "raised_in_heuristic"
             /\ UNCHANGED <<solution, calib, heur>>
        ELSE /\ heur' = [sel |-> s, fairness |-> CalculateFairness(s, cdata.count),
                         trial |-> 0]
             /\ pc' = "climb"
             /\ UNCHANGED <<solution, calib>>
    /\ UNCHANGED <<evars, data, attrs, coef, initialFairness, cdata, status, adjCall,
                   adjusted, round, finalFairness>>
    /\ UNCHANGED xvars

\* one pass of the loop of _generate_improved_solution
HeuristicTrial ==
    /\ pc = "climb"
    /\ heur.trial < TrialLimit
    /\ \E i \in 0..(cdata.n - 1) :
        IF \E a \in 1..Len(heur.sel) : heur.sel[a] = i
        THEN heur' = [heur EXCEPT !.trial = @ + 1]
        ELSE \E j \in 0..(Len(heur.sel) - 1) :
                LET new == [heur.sel EXCEPT ![j + 1] = i]
                    newFairness == CalculateFairness(new, cdata.count)
                IN  IF Improves(newFairness, heur.fairness)
                    THEN heur' = [sel |-> new, fairness |-> newFairness,
                                  trial |-> heur.trial + 1]
                    ELSE heur' = [heur EXCEPT !.trial = @ + 1]
    /\ UNCHANGED <<evars, data, attrs, coef, pc, initialFairness, cdata, status,
                   solution, calib, adjCall, adjusted, round, finalFairness>>
    /\ UNCHANGED xvars

\* the loop is over: the selection held is returned
HeuristicReturn ==
    /\ pc = "climb"
    /\ heur.trial = TrialLimit
    /\ solution' = [selected_indices |-> heur.sel, fairness_score |-> heur.fairness]
    /\ calib' = CalibStart
    /\ pc' = "calibrate"
    /\ UNCHANGED <<evars, data, attrs, coef, initialFairness, cdata, status, heur,
                   adjCall, adjusted, round, finalFairness>>
    /\ UNCHANGED xvars

\* what one trial of binary_search may see: the fairness of the dataset that
\* adjust_data returned and the record of that call
TrialOutcomes(c, d, mid, as) ==
    {[fairness |-> EvaluateResult(c, result, as),
      call |-> AdjustRecord(d, mid, result, "calibration")] :
        result \in AdjustResults(c, d, AllIndices(d), mid, as)}

\* one pass of the loop of binary_search.  solve() has returned: its status and
\* the locals of the heuristic are gone.
CalibrateTrial ==
    /\ pc = "calibrate"
    /\ StillWide(calib)
    /\ LET mid == Frac(calib.lo + calib.hi, 2 * calib.den)
       IN  \E out \in TrialOutcomes(cache, data, mid, attrs) :
            /\ adjCall' = out.call
            /\ calib' =
                IF Within(out.fairness, solution.fairness_score)
                THEN CalibReturn(calib, mid)
                ELSE IF Less(out.fairness, solution.fairness_score)
                THEN [calib EXCEPT !.lo = calib.lo + calib.hi,
                                   !.hi = 2 * calib.hi, !.den = 2 * calib.den]
                ELSE [calib EXCEPT !.lo = 2 * calib.lo,
                                   !.hi = calib.lo + calib.hi, !.den = 2 * calib.den]
    /\ pc' = IF calib'.search = "done" THEN "adjust" ELSE "calibrate"
    /\ cache' = CacheAfter(cache, data, attrs)
    /\ status' = "NONE"
    /\ heur' = NoHeur
    /\ UNCHANGED <<evalData, evalAttrs, evalResult, evalCalls, data, attrs, coef,
                   initialFairness, cdata, solution, adjusted, round, finalFairness>>
    /\ UNCHANGED xvars

\* binary_search leaves its loop and the coefficient found replaces the
\* configured one
CalibrateReturnApplied ==
    /\ pc = "calibrate"
    /\ ~StillWide(calib)
    /\ calib' = CalibReturn(calib, Frac(calib.lo + calib.hi, 2 * calib.den))
    /\ coef' = Frac(calib.lo + calib.hi, 2 * calib.den)
    /\ pc' = IF calib'.search = "done" THEN "adjust" ELSE "calibrate"
    /\ UNCHANGED <<evars, data, attrs, initialFairness, cdata, status,
                   solution, heur, adjCall, adjusted, round, finalFairness>>
    /\ UNCHANGED xvars

\* binary_search leaves its loop: return (low + high) / 2
CalibrateReturn ==
    /\ pc = "calibrate"
    /\ ~StillWide(calib)
    /\ calib' = CalibReturn(calib, Frac(calib.lo + calib.hi, 2 * calib.den))
    /\ pc' = IF calib'.search = "done" THEN "adjust" ELSE "calibrate"
    /\ UNCHANGED <<evars, data, attrs, coef, initialFairness, cdata, status,
                   solution, heur, adjCall, adjusted, round, finalFairness>>
    /\ UNCHANGED xvars

\* Step 4, coefficient <= 1, with the rows that are not selected dropped from
\* the dataset itself
AdjustUndersampleInPlace ==
    /\ pc = "adjust"
    /\ coef.num <= coef.den
    /\ data' = Take(data, solution.selected_indices)
    /\ adjusted' = Take(data, solution.selected_indices)
    /\ adjCall' = AdjustRecord(data, coef, Take(data, solution.selected_indices), "final")
    /\ cache' = CacheAfter(cache, data, attrs)
    /\ calib' = NoCalib
    /\ pc' = "final"
    /\ UNCHANGED <<evalData, evalAttrs, evalResult, evalCalls, attrs, coef,
                   initialFairness, cdata, status, solution, heur, round,
                   finalFairness>>
    /\ UNCHANGED xvars

\* Step 4, coefficient <= 1: adjust_data undersamples.  The two calibration
\* results have been printed and are not read again.
AdjustUndersample ==
    /\ pc = "adjust"
    /\ coef.num <= coef.den
    /\ adjusted' = Take(data, solution.selected_indices)
    /\ adjCall' = AdjustRecord(data, coef, Take(data, solution.selected_indices), "final")
    /\ cache' = CacheAfter(cache, data, attrs)
    /\ calib' = NoCalib
    /\ pc' = "final"
    /\ UNCHANGED <<evalData, evalAttrs, evalResult, evalCalls, data, attrs, coef,
                   initialFairness, cdata, status, solution, heur, round,
                   finalFairness>>
    /\ UNCHANGED xvars

\* Step 4, coefficient > 1: adjust_data up to its loop; the call has not
\* returned yet.  This branch does not read solution, and optimize_fairness
\* reads only the score of it afterwards: the selection is dropped.
OversampleBegin ==
    /\ pc = "adjust"
    /\ coef.num > coef.den
    /\ adjusted' = data
    /\ round' = 0
    /\ cache' = CacheAfter(cache, data, attrs)
    /\ calib' = NoCalib
    /\ adjCall' = NoAdjust
    /\ solution' = [solution EXCEPT !.selected_indices = <<>>]
    /\ pc' = "oversample"
    /\ UNCHANGED <<evalData, evalAttrs, evalResult, evalCalls, data, attrs, coef,
                   initialFairness, cdata, status, heur, finalFairness>>
    /\ UNCHANGED xvars

\* one round of the oversampling loop; the loop counter is gone once the loop
\* is left
OversampleRound ==
    /\ pc = "oversample"
    /\ round < MaxIterations
    /\ \E batch \in Batches(data, FloorMul(Len(data), coef) - Len(adjusted)) :
        LET grown == adjusted \o batch
        IN  IF Less(EvaluateResult(cache, data, attrs), EvaluateResult(cache, grown, attrs))
            THEN /\ adjusted' = grown
                 /\ adjCall' = AdjustRecord(data, coef, grown, "final")
                 /\ pc' = "final"
                 /\ round' = 0
            ELSE /\ adjusted' = SubSeq(grown, 1, Len(grown) - Len(batch))
                 /\ round' = round + 1
                 /\ UNCHANGED <<adjCall, pc>>
    /\ UNCHANGED <<evars, data, attrs, coef, initialFairness, cdata, status, solution,
                   heur, calib, finalFairness>>
    /\ UNCHANGED xvars

\* the rounds are used up: adjust_data returns what it holds
OversampleReturn ==
    /\ pc = "oversample"
    /\ round = MaxIterations
    /\ adjCall' = AdjustRecord(data, coef, adjusted, "final")
    /\ round' = 0
    /\ pc' = "final"
    /\ UNCHANGED <<evars, data, attrs, coef, initialFairness, cdata, status, solution,
                   heur, calib, adjusted, finalFairness>>
    /\ UNCHANGED xvars

\* Step 5: final_fairness = evaluate(adjusted_data, sensitive_attributes)
EvaluateFinal ==
    /\ pc = "final"
    /\ finalFairness' = EvaluateResult(cache, adjusted, attrs)
    /\ cache' = CacheAfter(cache, adjusted, attrs)
    /\ pc' = IF EvaluateResult(cache, adjusted, attrs) = Raised
             THEN "raised_in_evaluate" ELSE "check"
    /\ UNCHANGED <<evalData, evalAttrs, evalResult, evalCalls, data, attrs, coef,
                   initialFairness, cdata, status, solution, heur, calib, adjCall,
                   adjusted, round>>
    /\ UNCHANGED xvars

\* if final_fairness < initial_fairness: revert
RegressionCheck ==
    /\ pc = "check"
    /\ IF Less(finalFairness, initialFairness)
       THEN /\ adjusted' = data
            /\ finalFairness' = initialFairness
       ELSE UNCHANGED <<adjusted, finalFairness>>
    /\ pc' = "done"
    /\ UNCHANGED <<evars, data, attrs, coef, initialFairness, cdata, status, solution,
                   heur, calib, adjCall, round>>
    /\ UNCHANGED xvars

\* Steps 6 to 8: the patterns of the adjusted dataset are mined and evaluated
\* by the evaluator that holds the original dataset, the report is generated
\* and the dataset is saved; an exception of fp_growth or evaluate_pattern
\* leaves optimize_fairness before anything is written
ReportAndSave ==
    /\ pc = "done"
    /\ pc' = IF MiningRaises(adjusted)
                \/ EvaluatePattern(data, attrs, FpGrowth(adjusted)) # "ok"
             THEN "raised_in_patterns" ELSE "saved"
    /\ UNCHANGED <<evars, data, attrs, coef, initialFairness, cdata, status, solution,
                   heur, calib, adjCall, adjusted, round, finalFairness>>
    /\ UNCHANGED xvars

Next ==
    \/ EvaluateInitial
    \/ BuildModel
    \/ SolveExact
    \/ SolveFallback
    \/ HeuristicDraw
    \/ HeuristicTrial
    \/ HeuristicReturn
    \/ CalibrateTrial
    \/ CalibrateReturn
    \/ AdjustUndersample
    \/ OversampleBegin
    \/ OversampleRound
    \/ OversampleReturn
    \/ EvaluateFinal
    \/ RegressionCheck
    \/ ReportAndSave

Spec == Init /\ [][Next]_vars

----------------------------------------------------------------------------
(* The request handler optimize_fairness of app.py *)

MaxBlocks == 2

RequiredParams == {"sensitive_attributes", "coefficient"}

\* a block is a row repeated: once, or often enough for a dataset on which
\* support 1 is below min_support * len(data)
BigBlock == MinSupportInverse + 1

RequestRows == {[sensitive_a |-> 1, g |-> 1], [sensitive_a |-> 1, g |-> 2], NullRow}

Blocks == [row : RequestRows, times : {1, BigBlock}]

RequestFiles == UNION {[1..m -> Blocks] : m \in 0..MaxBlocks}

\* "z" is not a column of the uploaded dataset
RequestAttrLists ==
    {<<"sensitive_a">>, <<"z">>, <<"sensitive_a", "g">>, <<"sensitive_a", "z">>}

Requests ==
    {r \in [json : BOOLEAN, keys : SUBSET RequiredParams, attrs : RequestAttrLists,
            upload : {"absent", "unparseable", "csv"}, file : RequestFiles] :
        /\ r.upload # "csv" => r.file = <<>>
        /\ ~r.json => (r.keys = {} /\ r.attrs = <<"sensitive_a">>)}

RECURSIVE Repeat(_, _)
Repeat(r, t) == IF t = 0 THEN <<>> ELSE <<r>> \o Repeat(r, t - 1)

\* pd.read_csv(data_file)
RECURSIVE ReadCsv(_)
ReadCsv(f) ==
    IF f = <<>> THEN <<>>
    ELSE Repeat(Head(f).row, Head(f).times) \o ReadCsv(Tail(f))

RequestInit ==
    /\ cache = EmptyCache
    /\ evalData = <<>>
    /\ evalAttrs = <<>>
    /\ evalResult = NoResult
    /\ evalCalls = 0
    /\ data = <<>>
    /\ attrs = <<>>
    /\ coef = Frac(1, 1)
    /\ pc = "idle"
    /\ initialFairness = NoResult
    /\ cdata = NoModel
    /\ status = "NONE"
    /\ solution = NoSolution
    /\ heur = NoHeur
    /\ calib = NoCalib
    /\ adjCall = NoAdjust
    /\ adjusted = <<>>
    /\ round = 0
    /\ finalFairness = NoResult
    /\ request \in Requests
    /\ rpc = "received"
    /\ steps = {}
    /\ response = "none"
    /\ rng = NoRng
    /\ seeded = NoSeeded

\* config = json.loads(request.form['config'])
ParseConfig ==
    /\ rpc = "received"
    /\ IF request.json
       THEN /\ rpc' = "config_parsed"
            /\ steps' = steps \cup {"config_parsed"}
            /\ UNCHANGED response
       ELSE /\ rpc' = "responded"
            /\ response' = "400_invalid_json"
            /\ UNCHANGED steps
    /\ UNCHANGED <<evars, pvars, request>>
    /\ UNCHANGED <<rng, seeded>>

\* data_file = request.files['data']; df = pd.read_csv(data_file)
ReadData ==
    /\ rpc = "config_parsed"
    /\ IF request.upload = "csv"
       THEN /\ rpc' = "data_loaded"
            /\ steps' = steps \cup {"dataset_parsed"}
            /\ UNCHANGED response
       ELSE /\ rpc' = "responded"
            /\ response' = IF request.upload = "absent"
                           THEN "400_bad_request" ELSE "500_read_csv_error"
            /\ UNCHANGED steps
    /\ UNCHANGED <<evars, pvars, request>>
    /\ UNCHANGED <<rng, seeded>>

\* the check for the required configuration parameters
CheckRequired ==
    /\ rpc = "data_loaded"
    /\ IF request.keys = RequiredParams
       THEN /\ rpc' = "construct"
            /\ UNCHANGED response
       ELSE /\ rpc' = "responded"
            /\ response' = "400_missing_parameters"
    /\ UNCHANGED <<evars, pvars, request, steps>>
    /\ UNCHANGED <<rng, seeded>>

\* FairnessOptimizer(config, df) up to patterns = fp_growth(self.data)
MinePatterns ==
    /\ rpc = "construct"
    /\ data' = ReadCsv(request.file)
    /\ attrs' = request.attrs
    /\ IF MiningRaises(ReadCsv(request.file))
       THEN /\ rpc' = "responded"
            /\ response' = "500_mining_error"
            /\ steps' = steps \cup {"constructor_entered"}
       ELSE /\ rpc' = "patterns"
            /\ steps' = steps \cup {"constructor_entered", "patterns_mined"}
            /\ UNCHANGED response
    /\ UNCHANGED <<evars, coef, pc, initialFairness, cdata, status, solution, heur,
                   calib, adjCall, adjusted, round, finalFairness, request>>
    /\ UNCHANGED <<rng, seeded>>

\* the rest of __init__: the patterns of the original dataset are evaluated
EvaluatePatterns ==
    /\ rpc = "patterns"
    /\ IF EvaluatePattern(data, attrs, FpGrowth(data)) = "ok"
       THEN /\ rpc' = "optimize"
            /\ steps' = steps \cup {"patterns_evaluated"}
            /\ UNCHANGED response
       ELSE /\ rpc' = "responded"
            /\ response' = IF EvaluatePattern(data, attrs, FpGrowth(data)) = "KeyError"
                           THEN "500_KeyError" ELSE "500_ValueError"
            /\ UNCHANGED steps
    /\ UNCHANGED <<evars, pvars, request>>
    /\ UNCHANGED <<rng, seeded>>

\* optimizer.optimize_fairness() enters Step 1: _get_combinations reads
\* data[attr] for every listed attribute before anything is cached
BaselineEvaluation ==
    /\ rpc = "optimize"
    /\ steps' = steps \cup {"baseline_evaluation"}
    /\ IF \E a \in 1..Len(attrs) : attrs[a] \notin ColumnNames
       THEN /\ rpc' = "responded"
            /\ response' = "500_KeyError"
       ELSE /\ rpc' = "optimizing"
            /\ UNCHANGED response
    /\ UNCHANGED <<evars, pvars, request>>
    /\ UNCHANGED <<rng, seeded>>

\* the rest of optimize_fairness, whose steps Spec follows one by one: it
\* ends with the two files written and the redirect, or with an exception
Optimization ==
    /\ rpc = "optimizing"
    /\ rpc' = "responded"
    /\ \/ /\ response' = "302_results"
          /\ steps' = steps \cup {"optimization", "files_written"}
       \/ /\ response' = "500_optimization_error"
          /\ steps' = steps \cup {"optimization"}
    /\ UNCHANGED <<evars, pvars, request>>
    /\ UNCHANGED <<rng, seeded>>

RequestNext ==
    \/ ParseConfig
    \/ ReadData
    \/ CheckRequired
    \/ MinePatterns
    \/ EvaluatePatterns
    \/ BaselineEvaluation
    \/ Optimization

RequestSpec == RequestInit /\ [][RequestNext]_vars

----------------------------------------------------------------------------
(* One optimize call with coefficient > 1, followed draw by draw.  The code *)
(* draws from two process-wide generators and never seeds them: random in   *)
(* the heuristic, numpy.random in the data adjuster.  A generator is a      *)
(* deterministic function of its state; a linear congruential step stands   *)
(* for the step of the library's generator.                                 *)

MaxSeed == 3

MaxEarlierTrials == 2

\* one draw: the generator moves to its next state
Advance(g) == [g EXCEPT !.draws = @ + 1, !.x = (5 * @ + 3) % 16]

\* randint(0, n - 1), choice and sample(n=1) over n candidates
DrawBelow(g, n) == (g.x \div 2) % n

RemoveAt(s, j) == SubSeq(s, 1, j - 1) \o SubSeq(s, j + 1, Len(s))

\* random.sample(pool, k) drawn from the generator
RECURSIVE SeededSample(_, _, _)
SeededSample(g, pool, k) ==
    IF k = 0 THEN [sel |-> <<>>, g |-> g]
    ELSE LET j == DrawBelow(g, Len(pool)) + 1
             rest == SeededSample(Advance(g), RemoveAt(pool, j), k - 1)
         IN  [sel |-> <<pool[j]>> \o rest.sel, g |-> rest.g]

\* the loop of _generate_improved_solution with `left` trials to go
RECURSIVE SeededClimb(_, _, _, _, _)
SeededClimb(g, sel, fairness, m, left) ==
    IF left = 0 THEN [sel |-> sel, fairness |-> fairness, g |-> g]
    ELSE LET i == DrawBelow(g, m.n)
             g1 == Advance(g)
         IN  IF \E a \in 1..Len(sel) : sel[a] = i
             THEN SeededClimb(g1, sel, fairness, m, left - 1)
             ELSE LET j == DrawBelow(g1, Len(sel))
                      new == [sel EXCEPT ![j + 1] = i]
                      newFairness == CalculateFairness(new, m.count)
                  IN  IF Improves(newFairness, fairness)
                      THEN SeededClimb(Advance(g1), new, newFairness, m, left - 1)
                      ELSE SeededClimb(Advance(g1), sel, fairness, m, left - 1)

\* _generate_improved_solution on a model with subgroups and a selection
\* that is not empty
SeededHeuristicResult(g, m, co) ==
    LET drawn == SeededSample(g, AllIndices([i \in 1..m.n |-> i]), SelectedSize(m.n, co))
    IN  SeededClimb(drawn.g, drawn.sel, CalculateFairness(drawn.sel, m.count), m,
                    TrialLimit)

\* the indices of the rows whose 'sensitive_a' is v, in row order
RECURSIVE MatchingRows(_, _, _)
MatchingRows(d, v, i) ==
    IF i > Len(d) THEN <<>>
    ELSE (IF d[i].sensitive_a = v THEN <<i>> ELSE <<>>) \o MatchingRows(d, v, i + 1)

\* one pass of the loop of _generate_synthetic_samples on the model's schema:
\* a value of 'sensitive_a' is chosen, a template among the rows that have it,
\* and the integer column 'g' is redrawn between its minimum and its maximum
SeededRow(g, d) ==
    LET values == Unique(d, "sensitive_a")
        v == values[DrawBelow(g, Len(values)) + 1]
        g1 == Advance(g)
        matching == MatchingRows(d, v, 1)
        t == d[matching[DrawBelow(g1, Len(matching)) + 1]]
        g2 == Advance(g1)
        lo == SetMin(ColumnSet(d, "g"))
        hi == SetMax(ColumnSet(d, "g"))
    IN  [row |-> [sensitive_a |-> t.sensitive_a, g |-> lo + DrawBelow(g2, hi - lo + 1)],
         g |-> Advance(g2)]

\* _generate_synthetic_samples(data, n_samples)
RECURSIVE SeededSynthetic(_, _, _)
SeededSynthetic(g, d, m) ==
    IF m <= 0 THEN [rows |-> <<>>, g |-> g]
    ELSE LET one == SeededRow(g, d)
             rest == SeededSynthetic(one.g, d, m - 1)
         IN  [rows |-> <<one.row>> \o rest.rows, g |-> rest.g]

\* the loop of adjust_data with `left` rounds to go
RECURSIVE SeededRounds(_, _, _, _, _, _)
SeededRounds(g, c, d, co, as, left) ==
    IF left = 0 THEN [rows |-> d, g |-> g]
    ELSE LET batch == SeededSynthetic(g, d, FloorMul(Len(d), co) - Len(d))
         IN  IF Less(EvaluateResult(c, d, as), EvaluateResult(c, d \o batch.rows, as))
             THEN [rows |-> d \o batch.rows, g |-> batch.g]
             ELSE SeededRounds(batch.g, c, d, co, as, left - 1)

\* adjust_data with coefficient > 1
SeededOversample(g, c, d, co, as) == SeededRounds(g, c, d, co, as, MaxIterations)

\* the first values of mid in binary_search(1, 2)
CalibrationMids == {Frac(3, 2), Frac(5, 4), Frac(7, 4)}

\* the baseline has been evaluated and the model built; both generators are
\* in the state their seed gives
SeededInit ==
    /\ evalData = <<>>
    /\ evalAttrs = <<>>
    /\ evalResult = NoResult
    /\ evalCalls = 0
    /\ data \in {d \in Datasets : Len(d) >= 1}
    /\ attrs \in AttrLists \ {<<>>}
    /\ coef = Frac(2, 1)
    /\ cache = CacheAfter(EmptyCache, data, attrs)
    /\ pc = "idle"
    /\ initialFairness = EvaluateResult(EmptyCache, data, attrs)
    /\ cdata = GenerateConstraints(data, attrs, coef)
    /\ status = "NONE"
    /\ solution = NoSolution
    /\ heur = NoHeur
    /\ calib = NoCalib
    /\ adjCall = NoAdjust
    /\ adjusted = <<>>
    /\ round = 0
    /\ finalFairness = NoResult
    /\ request = NoRequest
    /\ rpc = "idle"
    /\ steps = {}
    /\ response = "none"
    /\ \E s \in 0..MaxSeed : rng = [py |-> Generator(s), np |-> Generator(s)]
    /\ seeded = [NoSeeded EXCEPT !.phase = "solve"]

\* solve(): with k > n the model has no assignment, the heuristic runs
SeededHeuristic ==
    /\ seeded.phase = "solve"
    /\ LET r == SeededHeuristicResult(rng.py, cdata, coef)
       IN  /\ seeded' = [seeded EXCEPT !.phase = "calibrate", !.sel = r.sel,
                                       !.fairness = r.fairness]
           /\ rng' = [rng EXCEPT !.py = r.g]
    /\ UNCHANGED <<evars, pvars, request, rpc, steps, response>>

\* a trial of binary_search(1, 2): adjust_data oversamples with mid
SeededCalibrationTrial ==
    /\ seeded.phase = "calibrate"
    /\ seeded.trials < MaxEarlierTrials
    /\ \E mid \in CalibrationMids :
        rng' = [rng EXCEPT !.np = SeededOversample(rng.np, cache, data, mid, attrs).g]
    /\ seeded' = [seeded EXCEPT !.trials = @ + 1]
    /\ UNCHANGED <<evars, pvars, request, rpc, steps, response>>

\* Step 4: adjust_data oversamples with the configured coefficient
SeededAdjust ==
    /\ seeded.phase = "calibrate"
    /\ LET r == SeededOversample(rng.np, cache, data, coef, attrs)
       IN  /\ seeded' = [seeded EXCEPT !.phase = "done", !.rows = r.rows]
           /\ rng' = [rng EXCEPT !.np = r.g]
    /\ UNCHANGED <<evars, pvars, request, rpc, steps, response>>

SeededNext ==
    \/ SeededHeuristic
    \/ SeededCalibrationTrial
    \/ SeededAdjust

SeededSpec == SeededInit /\ [][SeededNext]_vars

----------------------------------------------------------------------------
(* generate_constraints and solver.Solve on their own: the model of a       *)
(* dataset and a coefficient <= 1 is built, then solved                     *)

MaxModelRows == 3

ModelDatasets == UNION {[1..m -> Rows] : m \in 1..MaxModelRows}

ModelInit ==
    /\ cache = EmptyCache
    /\ evalData = <<>>
    /\ evalAttrs = <<>>
    /\ evalResult = NoResult
    /\ evalCalls = 0
    /\ data \in ModelDatasets
    /\ attrs \in AttrLists \ {<<>>}
    /\ coef \in {c \in Coefficients : c.num <= c.den}
    /\ pc = "build"
    /\ initialFairness = NoResult
    /\ cdata = NoModel
    /\ status = "NONE"
    /\ solution = NoSolution
    /\ heur = NoHeur
    /\ calib = NoCalib
    /\ adjCall = NoAdjust
    /\ adjusted = <<>>
    /\ round = 0
    /\ finalFairness = NoResult
    /\ request = NoRequest
    /\ rpc = "idle"
    /\ steps = {}
    /\ response = "none"
    /\ rng = NoRng
    /\ seeded = NoSeeded

\* generate_constraints(data, config)
GenerateModel ==
    /\ pc = "build"
    /\ cdata' = GenerateConstraints(data, attrs, coef)
    /\ pc' = "built"
    /\ UNCHANGED <<evars, data, attrs, coef, initialFairness, status, solution, heur,
                   calib, adjCall, adjusted, round, finalFairness>>
    /\ UNCHANGED xvars

\* status = solver.Solve(model, ...) and, when it found an assignment, the
\* selection and the decoded objective
SolveModel ==
    /\ pc = "built"
    /\ \E o \in SolverOutcomes(cdata) :
        /\ status' = o.status
        /\ solution' = IF Solved(o)
                       THEN [selected_indices |-> Ascending(o.sel),
                             fairness_score |-> Decoded(o)]
                       ELSE NoSolution
    /\ pc' = "solved"
    /\ UNCHANGED <<evars, data, attrs, coef, initialFairness, cdata, heur, calib,
                   adjCall, adjusted, round, finalFairness>>
    /\ UNCHANGED xvars

ModelNext ==
    \/ GenerateModel
    \/ SolveModel

ModelSpec == ModelInit /\ [][ModelNext]_vars

----------------------------------------------------------------------------
(* The exact path of optimize_fairness with its scores as the binary64      *)
(* values Python computes.  A value of [0, 1] is held exactly, in units of  *)
(* 2^-55, as hi * 2^28 + lo; the quotients are those of counts over at most *)
(* 8 rows, none of which lies strictly between 0 and 1/8                    *)

MaxFloatRows == 5

RECURSIVE Pow2(_)
Pow2(e) == IF e = 0 THEN 1 ELSE 2 * Pow2(e - 1)

Limb == Pow2(28)

Float(h, l) == [kind |-> "float", hi |-> h, lo |-> l]

\* 1.0
FloatOne == Float(Pow2(27), 0)

Carry(v) == IF v.lo >= Limb THEN Float(v.hi + 1, v.lo - Limb) ELSE v

\* the binary64 value nearest to v + r/n units, ties to even: 53 significant
\* bits are units of 4 from 1/2 on, of 2 from 1/4 on, of 1 below
RoundNearestEven(v, r, n) ==
    LET step == IF v.hi >= Pow2(26) THEN 4 ELSE IF v.hi >= Pow2(25) THEN 2 ELSE 1
        low == v.lo % step
        rest == low * n + r
        down == Float(v.hi, v.lo - low)
        up == Carry(Float(v.hi, v.lo - low + step))
    IN  IF 2 * rest > step * n THEN up
        ELSE IF 2 * rest < step * n THEN down
        ELSE IF (v.lo \div step) % 2 = 0 THEN down ELSE up

\* a / n for integers 0 <= a <= n: the correctly rounded quotient
FloatQuotient(a, n) ==
    LET t == a * Pow2(27)
        u == (t % n) * Limb
    IN  RoundNearestEven(Float(t \div n, u \div n), u % n, n)

\* x - y for x >= y
FloatDifference(x, y) ==
    RoundNearestEven(IF x.lo >= y.lo
                     THEN Float(x.hi - y.hi, x.lo - y.lo)
                     ELSE Float(x.hi - y.hi - 1, x.lo + Limb - y.lo), 0, 1)

FloatLess(x, y) == x.hi < y.hi \/ (x.hi = y.hi /\ x.lo < y.lo)

FloatLessEq(x, y) == x = y \/ FloatLess(x, y)

\* 1 - (max(supports.values()) - min(supports.values())), a support being
\* mask.sum() / total_records
FloatFairness(counts, total) ==
    FloatDifference(FloatOne,
                    FloatDifference(FloatQuotient(SetMax(counts), total),
                                    FloatQuotient(SetMin(counts), total)))

\* evaluate(d, as) on a dataset with rows and a list with attributes
FloatEvaluate(c, d, as) ==
    FloatFairness(SupportCounts(d, GetCombinations(c, d, as)), Len(d))

\* solver.Value(fairness_score) / 1000000: the quotient of two integers is the
\* rounded value of the fraction, which Decoded holds in lowest terms
FloatDecoded(o) == FloatQuotient(Decoded(o).num, Decoded(o).den)

FloatRows == {[sensitive_a |-> 1, g |-> 1], [sensitive_a |-> 2, g |-> 1],
              [sensitive_a |-> 2, g |-> 2]}

FloatDatasets == UNION {[1..m -> FloatRows] : m \in 1..MaxFloatRows}

FloatInit ==
    /\ cache = EmptyCache
    /\ evalData = <<>>
    /\ evalAttrs = <<>>
    /\ evalResult = NoResult
    /\ evalCalls = 0
    /\ data \in FloatDatasets
    /\ attrs \in {<<"sensitive_a">>, <<"sensitive_a", "g">>}
    /\ coef \in {Frac(1, 2), Frac(1, 1)}
    /\ pc = "start"
    /\ initialFairness = NoResult
    /\ cdata = NoModel
    /\ status = "NONE"
    /\ solution = NoSolution
    /\ heur = NoHeur
    /\ calib = NoCalib
    /\ adjCall = NoAdjust
    /\ adjusted = <<>>
    /\ round = 0
    /\ finalFairness = NoResult
    /\ request = NoRequest
    /\ rpc = "idle"
    /\ steps = {}
    /\ response = "none"
    /\ rng = NoRng
    /\ seeded = NoSeeded

\* Step 1
FloatEvaluateInitial ==
    /\ pc = "start"
    /\ initialFairness' = FloatEvaluate(cache, data, attrs)
    /\ cache' = CacheAfter(cache, data, attrs)
    /\ pc' = "model"
    /\ UNCHANGED <<evalData, evalAttrs, evalResult, evalCalls, data, attrs, coef,
                   cdata, status, solution, heur, calib, adjCall, adjusted, round,
                   finalFairness>>
    /\ UNCHANGED xvars

\* Step 3, solve(): the status test holds and optimized_fairness <=
\* initial_fairness does not; the exact result is returned
FloatSolveExact ==
    /\ pc = "solve"
    /\ \E o \in SolverOutcomes(cdata) :
        /\ Solved(o)
        /\ ~FloatLessEq(FloatDecoded(o), initialFairness)
        /\ status' = o.status
        /\ solution' = [selected_indices |-> Ascending(o.sel),
                        fairness_score |-> FloatDecoded(o)]
    /\ pc' = "calibrate"
    /\ UNCHANGED <<evars, data, attrs, coef, initialFairness, cdata, heur, calib,
                   adjCall, adjusted, round, finalFairness>>
    /\ UNCHANGED xvars

\* Step 3, solve(): the heuristic is entered, which Spec follows
FloatSolveFallback ==
    /\ pc = "solve"
    /\ \E o \in SolverOutcomes(cdata) :
        /\ ~(Solved(o) /\ ~FloatLessEq(FloatDecoded(o), initialFairness))
        /\ status' = o.status
    /\ pc' = "heuristic"
    /\ UNCHANGED <<evars, data, attrs, coef, initialFairness, cdata, solution, heur,
                   calib, adjCall, adjusted, round, finalFairness>>
    /\ UNCHANGED xvars

\* calculate_optimal_coefficients as a whole: its trials change nothing that
\* a later step reads and its two results are printed
FloatCalibration ==
    /\ pc = "calibrate"
    /\ status' = "NONE"
    /\ pc' = "adjust"
    /\ UNCHANGED <<evars, data, attrs, coef, initialFairness, cdata, solution, heur,
                   calib, adjCall, adjusted, round, finalFairness>>
    /\ UNCHANGED xvars

\* Step 5
FloatEvaluateFinal ==
    /\ pc = "final"
    /\ finalFairness' = FloatEvaluate(cache, adjusted, attrs)
    /\ pc' = "check"
    /\ UNCHANGED <<evars, data, attrs, coef, initialFairness, cdata, status, solution,
                   heur, calib, adjCall, adjusted, round>>
    /\ UNCHANGED xvars

\* if final_fairness < initial_fairness: revert
FloatRegressionCheck ==
    /\ pc = "check"
    /\ IF FloatLess(finalFairness, initialFairness)
       THEN /\ adjusted' = data
            /\ finalFairness' = initialFairness
       ELSE UNCHANGED <<adjusted, finalFairness>>
    /\ pc' = "done"
    /\ UNCHANGED <<evars, data, attrs, coef, initialFairness, cdata, status, solution,
                   heur, calib, adjCall, round>>
    /\ UNCHANGED xvars

FloatNext ==
    \/ FloatEvaluateInitial
    \/ BuildModel
    \/ FloatSolveExact
    \/ FloatSolveFallback
    \/ FloatCalibration
    \/ AdjustUndersample
    \/ FloatEvaluateFinal
    \/ FloatRegressionCheck

FloatSpec == FloatInit /\ [][FloatNext]_vars

----------------------------------------------------------------------------
(* Properties of optimize_fairness *)

IsOne(c) == c.num = c.den

AtMostOne(c) == c.num <= c.den

C2_UndersampleSize ==
    (adjCall.by # "none" /\ AtMostOne(adjCall.coef)) =>
        /\ adjCall.rows = FloorMul(adjCall.n, adjCall.coef)
        /\ adjCall.delta = adjCall.n - FloorMul(adjCall.n, adjCall.coef)

\* a selection that holds every row index 0..n-1 exactly once
SelectsEveryRowOnce(sel, n) ==
    /\ Len(sel) = n
    /\ \A i \in 0..(n - 1) : Cardinality({a \in 1..Len(sel) : sel[a] = i}) = 1

RowCount(d, r) == Cardinality({i \in 1..Len(d) : d[i] = r})

SameRows(d, e) ==
    /\ Len(d) = Len(e)
    /\ \A i \in 1..Len(d) : RowCount(d, d[i]) = RowCount(e, d[i])

\* C3: with coefficient 1.0 every assignment the exact solver may return and
\* every selection the heuristic holds or returns selects each row exactly
\* once; the adjusted dataset has the rows of the original and the final
\* fairness equals the initial fairness.
C3_CoefficientOne ==
    IsOne(coef) =>
        /\ pc = "solve" =>
              \A o \in SolverOutcomes(cdata) :
                  Solved(o) => o.sel = 0..(Len(data) - 1)
        /\ pc = "climb" => SelectsEveryRowOnce(heur.sel, Len(data))
        /\ pc \in {"calibrate", "adjust", "final", "check", "done"} =>
              SelectsEveryRowOnce(solution.selected_indices, Len(data))
        /\ pc \in {"final", "check", "done"} => SameRows(adjusted, data)
        /\ pc \in {"check", "done"} => SameValue(finalFairness, initialFairness)

C3_Witness ==
    /\ IsOne(coef)
    /\ pc = "done"
    /\ Len(data) = 2
    /\ adjusted # data
    /\ IsScore(finalFairness)

\* C4: every synthetic row of the adjusted dataset carries, on the configured
\* sensitive attributes, the values of some row of the original dataset.
C4_SyntheticFromExisting ==
    (~AtMostOne(coef) /\ pc \in {"oversample", "final", "check", "done"}) =>
        \A i \in (Len(data) + 1)..Len(adjusted) :
            \E j \in 1..Len(data) :
                \A a \in 1..Len(attrs) : adjusted[i][attrs[a]] = data[j][attrs[a]]

\* a valid selection of exactly floor(n * coefficient) rows
ValidSelection(sel, n, c) ==
    /\ Len(sel) = FloorMul(n, c)
    /\ \A a \in 1..Len(sel) : sel[a] \in 0..(n - 1)
    /\ \A a, b \in 1..Len(sel) : a # b => sel[a] # sel[b]

\* C9: the heuristic never raises; the selection it holds after the draw and
\* after every trial, and the one it returns, is a valid selection of exactly
\* floor(n * coefficient) rows.
C9_HeuristicValidSelection ==
    /\ pc # "raised_in_heuristic"
    /\ pc = "climb" => ValidSelection(heur.sel, cdata.n, coef)
    /\ (pc = "calibrate" /\ heur # NoHeur) =>
          ValidSelection(solution.selected_indices, cdata.n, coef)

\* C10: from one trial of the hill-climb to the next the measure held is the
\* measure of the selection held and does not decrease; the selection changes
\* only with a strictly greater measure, and otherwise both stay as they were.
C10_MeasureNonDecreasing ==
    [][(pc = "climb" /\ pc' = "climb") =>
          /\ heur'.trial = heur.trial + 1
          /\ heur'.fairness = CalculateFairness(heur'.sel, cdata.count)
          /\ LessEq(heur.fairness, heur'.fairness)
          /\ heur'.sel # heur.sel => Less(heur.fairness, heur'.fairness)
          /\ ~Less(heur.fairness, heur'.fairness) =>
                (heur'.sel = heur.sel /\ heur'.fairness = heur.fairness)]_vars

C10_Witness ==
    /\ pc = "climb"
    /\ heur.trial >= 2
    /\ Len(heur.sel) >= 1
    /\ Len(heur.sel) < cdata.n

----------------------------------------------------------------------------
(* Properties of FairnessEvaluator.evaluate *)

\* the datasets that hold the rows of d in another order
RowPermutations(d) ==
    {[i \in 1..Len(d) |-> d[f[i]]] :
        f \in {g \in [1..Len(d) -> 1..Len(d)] :
                  \A a, b \in 1..Len(d) : a # b => g[a] # g[b]}}

\* what an evaluator that has evaluated nothing before returns
FreshResult(d, as) == EvaluateResult(EmptyCache, d, as)

\* C5: on a dataset with at least one row and an attribute list that yields at
\* least one subgroup on it, evaluate returns a score in [0,1], whatever the
\* evaluator evaluated before.
C5_ScoreInUnitInterval ==
    (evalCalls > 0 /\ Len(evalData) >= 1
        /\ BuildCombinations(evalData, evalAttrs) # <<>>) =>
        InUnitInterval(evalResult)

\* C6: evaluate returns what an evaluator without history returns: 1 - (max
\* support - min support) over the subgroups of the dataset being evaluated.
C6_IndependentOfHistory ==
    evalCalls > 0 => SameValue(evalResult, FreshResult(evalData, evalAttrs))

\* C7: a dataset and each of its row permutations get the same result, from
\* the evaluator that has just evaluated the dataset and from a new one.
C7_PermutationInvariant ==
    evalCalls > 0 =>
        \A p \in RowPermutations(evalData) :
            /\ SameValue(EvaluateResult(cache, p, evalAttrs), evalResult)
            /\ SameValue(FreshResult(p, evalAttrs), FreshResult(evalData, evalAttrs))

C7_Witness ==
    /\ evalCalls = 2
    /\ Len(evalData) = 2
    /\ evalData[1] # evalData[2]
    /\ IsScore(evalResult)
    /\ ~SameValue(evalResult, Score(1, 1))
    /\ ~SameValue(evalResult, FreshResult(evalData, evalAttrs))

\* C8: with an empty attribute list or a dataset of zero rows evaluate raises,
\* in every state of the cache.
C8_RaisesOnEmptyInput ==
    (evalCalls > 0 /\ (evalAttrs = <<>> \/ Len(evalData) = 0)) =>
        evalResult = Raised

----------------------------------------------------------------------------
(* Properties of the adjuster, the calibration and solve() *)

CacheOfRun == CacheAfter(EmptyCache, data, attrs)

C16_ExactOrHeuristic ==
    [][/\ pc = "solve" =>
            \A o \in SolverOutcomes(cdata) :
                ReturnsExact(o, initialFairness) <=>
                    (o.status \in {"OPTIMAL", "FEASIBLE"}
                        /\ Less(initialFairness, Decoded(o)))
       /\ (pc = "solve" /\ pc' = "calibrate") =>
            \E o \in SolverOutcomes(cdata) :
                /\ o.status \in {"OPTIMAL", "FEASIBLE"}
                /\ Less(initialFairness, Decoded(o))
                /\ status' = o.status
                /\ solution' = [selected_indices |-> Ascending(o.sel),
                                fairness_score |-> Decoded(o)]
       /\ (pc = "solve" /\ pc' = "heuristic") =>
            /\ solution' = NoSolution
            /\ \E o \in SolverOutcomes(cdata) :
                /\ status' = o.status
                /\ ~(o.status \in {"OPTIMAL", "FEASIBLE"}
                        /\ Less(initialFairness, Decoded(o)))
       /\ (pc = "heuristic" /\ pc' = "calibrate") =>
            /\ solution'.selected_indices
                   \in Samples(cdata.n, SelectedSize(cdata.n, coef))
            /\ solution'.fairness_score = Placeholder
       /\ (pc = "climb" /\ pc' = "calibrate") =>
            solution' = [selected_indices |-> heur.sel,
                         fairness_score |-> heur.fairness]]_vars

C16_Witness ==
    /\ pc = "calibrate"
    /\ status = "FEASIBLE"
    /\ heur = NoHeur
    /\ Less(initialFairness, solution.fairness_score)

----------------------------------------------------------------------------
(* Properties of the integer model and of the heuristic's measure *)

\* 1 - (maxCount - minCount)/k of a selection of k rows; no value for k = 0
Measure(m, S) == IF m.k = 0 THEN NaN ELSE Score(m.k - Spread(m, S), m.k)

\* C17: every selection of exactly k rows is a feasible assignment of the
\* model, and the maximal objective divided by 1,000,000 is the maximum of
\* 1 - (maxCount - minCount)/k over those selections, for 0 <= k <= n.
C17_ModelEquivalentToMeasure ==
    (pc \in {"built", "solved"} /\ cdata.k <= cdata.n) =>
        /\ \A S \in Selections(cdata) : FeasibleObjectives(cdata, S) # {}
        /\ OptimalPairs(cdata) # {}
        /\ \A p \in OptimalPairs(cdata) :
              /\ \A S \in Selections(cdata) :
                    LessEq(Measure(cdata, S), Score(p[2], Scale))
              /\ \E S \in Selections(cdata) :
                    SameValue(Measure(cdata, S), Score(p[2], Scale))

\* maxSubgroupCount - minSubgroupCount of a selection, a subgroup counting the
\* selected rows that carry all its (attribute, value) pairs
SubgroupSpread(sel, m) ==
    LET cs == {Cardinality({a \in 1..Len(sel) : sel[a] \in m.rowsOf[j]})
                  : j \in 1..Len(m.count)}
    IN  SetMax(cs) - SetMin(cs)

\* C18: the measure the hill-climb holds is 1 - (maxSubgroupCount -
\* minSubgroupCount)/k of the selection it holds.
C18_MeasureCountsSubgroups ==
    pc = "climb" =>
        SameValue(heur.fairness,
                  Score(Len(heur.sel) - SubgroupSpread(heur.sel, cdata), Len(heur.sel)))

\* the size adjust_data aims at with coefficient > 1
TargetSize == FloorMul(Len(data), coef)

\* C19: every step of the oversampling loop starts from the original rows,
\* synthesizes exactly target - current_size rows, and keeps all of them, when
\* the whole dataset scores strictly above the baseline, or none of them; there
\* are at most max_iterations rounds; after the step the adjusted dataset has
\* n or floor(n * coefficient) rows and begins with the original rows.
C19_BatchAtomic ==
    [][pc = "oversample" =>
          /\ round <= MaxIterations
          /\ adjusted = data
          /\ \A b \in Batches(data, TargetSize - Len(adjusted)) :
                Len(b) = TargetSize - Len(adjusted)
          /\ Len(adjusted') \in {Len(data), TargetSize}
          /\ SubSeq(adjusted', 1, Len(data)) = data
          /\ round' <= MaxIterations
          /\ (round < MaxIterations /\ pc' = "final") =>
                /\ Len(adjusted') = TargetSize
                /\ Less(EvaluateResult(cache, data, attrs),
                        EvaluateResult(cache, adjusted', attrs))
          /\ pc' = "oversample" => (adjusted' = data /\ round' = round + 1)
          /\ round = MaxIterations => (pc' = "final" /\ adjusted' = data)]_vars

C19_Witness ==
    /\ pc = "oversample"
    /\ round >= 1
    /\ TargetSize - Len(data) >= 2

\* the stage of optimize_fairness a position belongs to: 1 baseline fairness,
\* 2 model building, 3 solve, 4 calibration, 5 adjustment, 6 final fairness,
\* 7 regression check, 8 patterns, report and saving, 9 returned; 0 after an
\* exception
Stage(p) ==
    CASE p = "start" -> 1
      [] p = "model" -> 2
      [] p \in {"solve", "heuristic", "climb"} -> 3
      [] p = "calibrate" -> 4
      [] p \in {"adjust", "oversample"} -> 5
      [] p = "final" -> 6
      [] p = "check" -> 7
      [] p = "done" -> 8
      [] p = "saved" -> 9
      [] OTHER -> 0

\* a step stays in its stage, enters the next one, or raises
InOrder == Stage(pc') \in {Stage(pc), Stage(pc) + 1, 0}

\* C20 as stated: the stages run in order, the calibration not being one of
\* them, and adjust_data is called in the adjustment stage only.
C20_AdjusterOnlyInAdjustment ==
    [][/\ InOrder
       /\ adjCall' # adjCall => pc \in {"adjust", "oversample"}
       /\ pc' \in {"saved", "raised_in_patterns"} => pc = "done"]_vars

\* C20, amended: the stages run in the order baseline fairness, model
\* building, solve, calibration, adjustment, final fairness, regression check,
\* then patterns, report and saving; adjust_data is called by the calibration
\* trials and by the adjustment stage only, never before solve() has returned
\* a solution; the patterns are evaluated only once the regression check is
\* over, and nothing changes the returned values afterwards.
C20_StagesInOrder ==
    [][/\ InOrder
       /\ Stage(pc) = 3 /\ Stage(pc') > 3 => pc' = "calibrate" /\ solution' # NoSolution
       /\ adjCall' # adjCall =>
             \/ pc = "calibrate" /\ adjCall'.by = "calibration" /\ solution # NoSolution
             \/ pc \in {"adjust", "oversample"} /\ adjCall'.by \in {"final", "none"}
       /\ pc' \in {"saved", "raised_in_patterns"} =>
             /\ pc = "done"
             /\ adjusted' = adjusted /\ finalFairness' = finalFairness]_vars

C20_Witness ==
    /\ pc = "adjust"
    /\ adjCall.by = "calibration"

----------------------------------------------------------------------------
(* Properties of the request handler and of the constructor *)

\* a listed sensitive attribute is not a column of the uploaded dataset
MissingAttribute ==
    \E a \in 1..Len(request.attrs) : request.attrs[a] \notin ColumnNames

\* C11: a request whose configuration lacks 'sensitive_attributes' or
\* 'coefficient' is answered with the missing-parameter error and nothing has
\* been processed: no dataset parsed, no optimizer constructed, no step run.
C11_MissingKeyBeforeProcessing ==
    (request.json /\ request.keys # RequiredParams) =>
        /\ steps \subseteq {"config_parsed"}
        /\ rpc = "responded" => response = "400_missing_parameters"

\* C12: when a listed sensitive attribute is not a column, the call ends in
\* an error before optimize_fairness starts its baseline evaluation, whatever
\* pattern mining finds.
C12_MissingColumnBeforeOptimization ==
    (request.keys = RequiredParams /\ request.upload = "csv" /\ MissingAttribute) =>
        /\ rpc \notin {"optimize", "optimizing"}
        /\ steps \cap {"baseline_evaluation", "optimization", "files_written"} = {}

----------------------------------------------------------------------------
(* Properties of the random draws *)

\* C13: with the seed fixed, the heuristic returns what it returns right
\* after seeding, and so does the final oversampling, however many
\* calibration trials drew from the generator before it.
C13_SeedDeterminesResults ==
    /\ seeded.phase \in {"calibrate", "done"} =>
          LET r == SeededHeuristicResult(Generator(rng.py.seed), cdata, coef)
          IN  seeded.sel = r.sel /\ seeded.fairness = r.fairness
    /\ seeded.phase = "done" =>
          seeded.rows =
              SeededOversample(Generator(rng.np.seed), cache, data, coef, attrs).rows

----------------------------------------------------------------------------
(* Properties of the calibration results, of the loops and of the exact path *)

\* low <= c <= high for a coefficient c
CoefficientWithin(c, low, high) ==
    low * c.den <= c.num /\ c.num <= high * c.den

\* a dataset adjust_data may return at coefficient c scores within 0.001 of
\* the optimized fairness score
ReachesOptimizedScore(c) ==
    \E r \in AdjustResults(cache, data, AllIndices(data), c, attrs) :
        Within(EvaluateResult(cache, r, attrs), solution.fairness_score)

\* C21: the two coefficients the calibration returns lie in [0, 1] and in
\* [1, 2], and at each of them adjust_data has a result whose fairness is
\* within 0.001 of the optimized fairness score.
C21_CalibratedWithinTolerance ==
    (pc = "adjust" /\ calib.search = "done") =>
        /\ CoefficientWithin(calib.less, 0, 1)
        /\ CoefficientWithin(calib.greater, 1, 2)
        /\ ReachesOptimizedScore(calib.less)
        /\ ReachesOptimizedScore(calib.greater)

\* C22: no step of optimize_fairness changes the original dataset, and what
\* the run computed from it at the start, the baseline fairness, the cached
\* subgroups and the model, is still what the dataset held gives; a revert
\* hands out the original rows themselves.
C22_OriginalReadOnly ==
    /\ [][data' = data]_vars
    /\ [](Stage(pc) >= 2 =>
            /\ initialFairness = EvaluateResult(EmptyCache, data, attrs)
            /\ cache = CacheAfter(EmptyCache, data, attrs))
    /\ [](Stage(pc) >= 3 => cdata = GenerateConstraints(data, attrs, coef))
    /\ [][(pc = "check" /\ Less(finalFairness, initialFairness)) => adjusted' = data']_vars

C22_Witness ==
    /\ pc = "done"
    /\ adjCall.by = "final"
    /\ Len(adjusted) < Len(data)
    /\ Len(adjusted) >= 1

\* the passes of its loop the running binary_search has made: each halves the
\* interval, whose width is 1 / den
RECURSIVE Halvings(_)
Halvings(den) == IF den <= 1 THEN 0 ELSE 1 + Halvings(den \div 2)

\* C23: every step of the hill-climb is one more trial, up to the trial
\* budget, and the step at the budget returns the selection and the measure
\* then held; every step of a binary search is one more trial, at most 10 of
\* them, or its return with a value of its initial interval.
C23_LoopsWithinCeiling ==
    /\ [](pc = "climb" => heur.trial <= TrialLimit)
    /\ [][pc = "climb" =>
             \/ /\ heur.trial < TrialLimit
                /\ heur'.trial = heur.trial + 1
                /\ pc' = "climb"
             \/ /\ heur.trial = TrialLimit
                /\ solution' = [selected_indices |-> heur.sel,
                                fairness_score |-> heur.fairness]
                /\ pc' = "calibrate"]_vars
    /\ [](pc = "calibrate" =>
             /\ calib.hi - calib.lo = 1
             /\ Halvings(calib.den) <= 10
             /\ calib.search = "high" => CoefficientWithin(calib.less, 0, 1))
    /\ [][pc = "calibrate" =>
             \/ /\ calib'.search = calib.search
                /\ Halvings(calib'.den) = Halvings(calib.den) + 1
             \/ /\ calib.search = "low" /\ calib'.search = "high"
                /\ CoefficientWithin(calib'.less, 0, 1)
             \/ /\ calib.search = "high" /\ calib'.search = "done"
                /\ CoefficientWithin(calib'.greater, 1, 2)]_vars

C23_Witness ==
    /\ pc = "calibrate"
    /\ calib.search = "high"
    /\ Halvings(calib.den) = 10

\* C24: on the exact path with coefficient <= 1 and k >= 1 the final fairness
\* is the optimized fairness score solve returned, and it is strictly greater
\* than the initial fairness.
C24_ExactScoreIsFinalFairness ==
    (pc \in {"check", "done"} /\ cdata.k >= 1) =>
        /\ finalFairness = solution.fairness_score
        /\ FloatLess(initialFairness, finalFairness)

====
